---------------------------- MODULE Spec2Model ----------------------------
(***************************************************************************)
(* A model of the GLIF point-neuron models glif_lif (plain) and            *)
(* glif_lif_psc (alpha-shaped post-synaptic currents) of GLIF2NEST.        *)
(*                                                                         *)
(* Every C++ double is modelled as an IEEE-754 binary64 value: a sign, a   *)
(* 53-bit significand held as a little-endian sequence of 15-bit limbs and *)
(* a binary exponent.  +, -, * and / round to nearest, ties to even, as    *)
(* the hardware does; std::exp and the NEST propagator functions are       *)
(* tabulated for the arguments the bounded parameter sets produce.         *)
(***************************************************************************)
EXTENDS Integers, Sequences, FiniteSets, TLC

(***************************************************************************)
(* Natural numbers of arbitrary size: little-endian sequences of limbs in  *)
(* base 2^15, without high zero limbs (zero is the empty sequence).        *)
(***************************************************************************)
LimbBase == 2 ^ 15

Pow2(k) == 2 ^ k

Limb(a, i) == IF i <= Len(a) THEN a[i] ELSE 0

MaxI(a, b) == IF a >= b THEN a ELSE b

MinI(a, b) == IF a <= b THEN a ELSE b

RECURSIVE BTrim(_)
BTrim(a) ==
  IF a = <<>> THEN a
  ELSE IF a[Len(a)] = 0 THEN BTrim(SubSeq(a, 1, Len(a) - 1)) ELSE a

RECURSIVE BAddFrom(_, _, _, _, _)
BAddFrom(a, b, i, c, acc) ==
  IF i > MaxI(Len(a), Len(b))
    THEN (IF c > 0 THEN Append(acc, c) ELSE acc)
    ELSE LET s == Limb(a, i) + Limb(b, i) + c
         IN  BAddFrom(a, b, i + 1, s \div LimbBase, Append(acc, s % LimbBase))

BAdd(a, b) == BAddFrom(a, b, 1, 0, <<>>)

\* a - b for a >= b
RECURSIVE BSubFrom(_, _, _, _, _)
BSubFrom(a, b, i, c, acc) ==
  IF i > Len(a)
    THEN BTrim(acc)
    ELSE LET s == Limb(a, i) - Limb(b, i) - c
         IN  IF s < 0
               THEN BSubFrom(a, b, i + 1, 1, Append(acc, s + LimbBase))
               ELSE BSubFrom(a, b, i + 1, 0, Append(acc, s))

BSub(a, b) == BSubFrom(a, b, 1, 0, <<>>)

\* -1, 0, 1 as a < b, a = b, a > b
RECURSIVE BCmpFrom(_, _, _)
BCmpFrom(a, b, i) ==
  IF i = 0 THEN 0
  ELSE IF a[i] < b[i] THEN -1
  ELSE IF a[i] > b[i] THEN 1
  ELSE BCmpFrom(a, b, i - 1)

BCmp(a, b) ==
  IF Len(a) < Len(b) THEN -1
  ELSE IF Len(a) > Len(b) THEN 1
  ELSE BCmpFrom(a, b, Len(a))

\* a * d for one limb d
RECURSIVE BMulLimbFrom(_, _, _, _, _)
BMulLimbFrom(a, d, i, c, acc) ==
  IF i > Len(a)
    THEN (IF c > 0 THEN Append(acc, c) ELSE acc)
    ELSE LET s == a[i] * d + c
         IN  BMulLimbFrom(a, d, i + 1, s \div LimbBase, Append(acc, s % LimbBase))

BMulLimb(a, d) == IF d = 0 THEN <<>> ELSE BMulLimbFrom(a, d, 1, 0, <<>>)

Zeros(n) == [i \in 1..n |-> 0]

BShlLimbs(a, n) == IF a = <<>> THEN a ELSE Zeros(n) \o a

RECURSIVE BMulFrom(_, _, _, _)
BMulFrom(a, b, j, acc) ==
  IF j > Len(b) THEN acc
  ELSE BMulFrom(a, b, j + 1, BAdd(acc, BShlLimbs(BMulLimb(a, b[j]), j - 1)))

BMul(a, b) == BMulFrom(a, b, 1, <<>>)

\* a * 2^k
BShl(a, k) == BShlLimbs(BMulLimb(a, Pow2(k % 15)), k \div 15)

\* floor(a / 2^k)
BShr(a, k) ==
  LET q == k \div 15
      r == k % 15
      n == Len(a) - q
  IN  IF n <= 0 THEN <<>>
      ELSE BTrim([i \in 1..n |->
                   (a[i + q] \div Pow2(r))
                   + (Limb(a, i + q + 1) % Pow2(r)) * Pow2(15 - r)])

RECURSIVE IntBitLen(_)
IntBitLen(n) == IF n = 0 THEN 0 ELSE 1 + IntBitLen(n \div 2)

BBitLen(a) ==
  IF a = <<>> THEN 0 ELSE (Len(a) - 1) * 15 + IntBitLen(a[Len(a)])

BIsOdd(a) == a # <<>> /\ a[1] % 2 = 1

BOne == <<1>>

\* floor(a * 2^(8n) / d) and whether the division left a remainder, by long
\* division in base 2^8, for a < 2d and d in [2^52, 2^53).  Each quotient
\* digit is estimated from the bits above 2^30 and corrected by at most one.
RECURSIVE BDivDigits(_, _, _, _)
BDivDigits(rem, d, n, q) ==
  IF n = 0 THEN [quo |-> q, sticky |-> (rem # <<>>)]
  ELSE LET R  == BMulLimb(rem, 256)
           Rt == Limb(R, 3) + Limb(R, 4) * LimbBase + Limb(R, 5) * LimbBase * LimbBase
           dt == Limb(d, 3) + Limb(d, 4) * LimbBase
           qh == Rt \div dt
           c  == IF BCmp(BMulLimb(d, qh + 1), R) <= 0 THEN qh + 1
                 ELSE IF BCmp(BMulLimb(d, qh), R) <= 0 THEN qh
                 ELSE qh - 1
       IN  BDivDigits(BSub(R, BMulLimb(d, c)), d, n - 1,
                      BAdd(BMulLimb(q, 256), IF c = 0 THEN <<>> ELSE <<c>>))

BDiv(a, d, n) ==
  LET ge == BCmp(a, d) >= 0
  IN  BDivDigits(IF ge THEN BSub(a, d) ELSE a, d, n, IF ge THEN BOne ELSE <<>>)

(***************************************************************************)
(* IEEE-754 binary64.  A finite value is (-1)^neg * man * 2^exp with man   *)
(* either zero or in [2^52, 2^53); zero is kept as +0.  The exponent range *)
(* is not bounded: no value of the bounded parameter sets comes near the   *)
(* overflow or subnormal range.                                            *)
(***************************************************************************)
DZero == [k |-> "num", neg |-> FALSE, man |-> <<>>, exp |-> 0]

DInf(s) == [k |-> "inf", neg |-> s, man |-> <<>>, exp |-> 0]

DNaN == [k |-> "nan", neg |-> FALSE, man |-> <<>>, exp |-> 0]

IsZero(x) == x.k = "num" /\ x.man = <<>>

\* (-1)^s * (n + f) * 2^e rounded to nearest, ties to even; 0 <= f < 1 and
\* f # 0 exactly if sticky.
RoundPack(s, n, sticky, e) ==
  LET bl == BBitLen(n)
  IN  IF bl = 0 THEN DZero
      ELSE IF bl <= 53
        THEN [k |-> "num", neg |-> s, man |-> BShl(n, 53 - bl), exp |-> e - (53 - bl)]
      ELSE LET sh   == bl - 53
               q    == BShr(n, sh)
               r    == BSub(n, BShl(q, sh))
               c    == BCmp(r, BShl(BOne, sh - 1))
               up   == c > 0 \/ (c = 0 /\ (sticky \/ BIsOdd(q)))
               q2   == IF up THEN BAdd(q, BOne) ELSE q
           IN  IF BBitLen(q2) = 54
                 THEN [k |-> "num", neg |-> s, man |-> BShr(q2, 1), exp |-> e + sh + 1]
                 ELSE [k |-> "num", neg |-> s, man |-> q2, exp |-> e + sh]

DNeg(x) == IF x.k = "nan" \/ IsZero(x) THEN x ELSE [x EXCEPT !.neg = ~x.neg]

\* -1, 0, 1 as |x| < |y|, |x| = |y|, |x| > |y| for finite x, y
MagCmp(x, y) ==
  IF x.man = <<>> THEN (IF y.man = <<>> THEN 0 ELSE -1)
  ELSE IF y.man = <<>> THEN 1
  ELSE IF x.exp < y.exp THEN -1
  ELSE IF x.exp > y.exp THEN 1
  ELSE BCmp(x.man, y.man)

DAdd(x, y) ==
  IF x.k = "nan" \/ y.k = "nan" THEN DNaN
  ELSE IF x.k = "inf"
    THEN (IF y.k = "inf" /\ y.neg # x.neg THEN DNaN ELSE x)
  ELSE IF y.k = "inf" THEN y
  ELSE IF IsZero(x) THEN y
  ELSE IF IsZero(y) THEN x
  ELSE LET e  == MinI(x.exp, y.exp)
           a  == BShl(x.man, x.exp - e)
           b  == BShl(y.man, y.exp - e)
       IN  IF x.neg = y.neg THEN RoundPack(x.neg, BAdd(a, b), FALSE, e)
           ELSE IF BCmp(a, b) >= 0 THEN RoundPack(x.neg, BSub(a, b), FALSE, e)
           ELSE RoundPack(y.neg, BSub(b, a), FALSE, e)

DSub(x, y) == DAdd(x, DNeg(y))

DMul(x, y) ==
  IF x.k = "nan" \/ y.k = "nan" THEN DNaN
  ELSE IF x.k = "inf" \/ y.k = "inf"
    THEN (IF IsZero(x) \/ IsZero(y) THEN DNaN ELSE DInf(x.neg # y.neg))
  ELSE IF IsZero(x) \/ IsZero(y) THEN DZero
  ELSE RoundPack(x.neg # y.neg, BMul(x.man, y.man), FALSE, x.exp + y.exp)

DDiv(x, y) ==
  IF x.k = "nan" \/ y.k = "nan" THEN DNaN
  ELSE IF x.k = "inf" THEN (IF y.k = "inf" THEN DNaN ELSE DInf(x.neg # y.neg))
  ELSE IF y.k = "inf" THEN DZero
  ELSE IF IsZero(y) THEN (IF IsZero(x) THEN DNaN ELSE DInf(x.neg))
  ELSE IF IsZero(x) THEN DZero
  ELSE LET d == BDiv(x.man, y.man, 8)
       IN  RoundPack(x.neg # y.neg, d.quo, d.sticky, x.exp - y.exp - 64)

\* x < y; every comparison with a NaN is false
DLt(x, y) ==
  IF x.k = "nan" \/ y.k = "nan" THEN FALSE
  ELSE IF x.k = "inf" THEN x.neg /\ ~(y.k = "inf" /\ y.neg)
  ELSE IF y.k = "inf" THEN ~y.neg
  ELSE IF x.neg /\ ~y.neg THEN ~(IsZero(x) /\ IsZero(y))
  ELSE IF ~x.neg /\ y.neg THEN FALSE
  ELSE IF x.neg THEN MagCmp(x, y) > 0
  ELSE MagCmp(x, y) < 0

DGt(x, y) == DLt(y, x)

DLe(x, y) == x.k # "nan" /\ y.k # "nan" /\ ~DLt(y, x)

DGe(x, y) == DLe(y, x)

\* 1.0
D_1 == [k |-> "num", neg |-> FALSE, man |-> <<0, 0, 0, 128>>, exp |-> -52]

\* 2.0
D_2 == [k |-> "num", neg |-> FALSE, man |-> <<0, 0, 0, 128>>, exp |-> -51]

\* 1.0e03
D_1e3 == [k |-> "num", neg |-> FALSE, man |-> <<0, 0, 0, 250>>, exp |-> -43]

\* 1.0e-03
D_1em3 == [k |-> "num", neg |-> FALSE, man |-> <<10748, 9699, 2359, 131>>, exp |-> -62]

\* numerics::e
D_e == [k |-> "num", neg |-> FALSE, man |-> <<22377, 5672, 31786, 173>>, exp |-> -51]

\* 0.0265
D_0_0265 == [k |-> "num", neg |-> FALSE, man |-> <<16777, 19136, 2883, 217>>, exp |-> -58]

\* -0.0774
D_m0_0774 == [k |-> "num", neg |-> TRUE, man |-> <<23750, 2411, 16882, 158>>, exp |-> -56]

\* 4.6951e-09
D_4_6951em9 == [k |-> "num", neg |-> FALSE, man |-> <<31045, 21384, 10564, 161>>, exp |-> -80]

\* 9.9182e-11
D_9_9182em11 == [k |-> "num", neg |-> FALSE, man |-> <<32394, 9563, 3392, 218>>, exp |-> -86]

\* 4.6951
D_4_6951 == [k |-> "num", neg |-> FALSE, man |-> <<19556, 5819, 7969, 150>>, exp |-> -50]

\* 99.182
D_99_182 == [k |-> "num", neg |-> FALSE, man |-> <<30671, 18087, 11927, 198>>, exp |-> -46]

\* 0.5
D_0_5 == [k |-> "num", neg |-> FALSE, man |-> <<0, 0, 0, 128>>, exp |-> -53]

\* 0.1
D_0_1 == [k |-> "num", neg |-> FALSE, man |-> <<6554, 13107, 26214, 204>>, exp |-> -56]

\* 0.3
D_0_3 == [k |-> "num", neg |-> FALSE, man |-> <<13107, 26214, 19660, 153>>, exp |-> -54]

\* 0.03
D_0_03 == [k |-> "num", neg |-> FALSE, man |-> <<7864, 22282, 24903, 245>>, exp |-> -58]

\* 30.0
D_30 == [k |-> "num", neg |-> FALSE, man |-> <<0, 0, 0, 240>>, exp |-> -48]

\* 20.0
D_20 == [k |-> "num", neg |-> FALSE, man |-> <<0, 0, 0, 160>>, exp |-> -48]

\* -1.0
D_m1 == [k |-> "num", neg |-> TRUE, man |-> <<0, 0, 0, 128>>, exp |-> -52]

\* 3.0e-08
D_3em8 == [k |-> "num", neg |-> FALSE, man |-> <<26923, 21320, 27820, 128>>, exp |-> -77]

\* 30000.0
D_30000 == [k |-> "num", neg |-> FALSE, man |-> <<0, 0, 12288, 234>>, exp |-> -38]

\* 100.0
D_100 == [k |-> "num", neg |-> FALSE, man |-> <<0, 0, 0, 200>>, exp |-> -46]

\* std::exp(x) for every argument x the parameter sets below produce,
\* as <<x, exp(x)>>
ExpTable ==
  {
  <<[k |-> "num", neg |-> TRUE, man |-> <<13107, 26214, 19660, 153>>, exp |-> -54],
    [k |-> "num", neg |-> FALSE, man |-> <<31749, 21382, 21281, 189>>, exp |-> -53]>>,
  <<[k |-> "num", neg |-> TRUE, man |-> <<13107, 26214, 19660, 153>>, exp |-> -55],
    [k |-> "num", neg |-> FALSE, man |-> <<23776, 26761, 11181, 220>>, exp |-> -53]>>,
  <<[k |-> "num", neg |-> TRUE, man |-> <<6554, 13107, 26214, 204>>, exp |-> -56],
    [k |-> "num", neg |-> FALSE, man |-> <<11066, 13226, 20918, 231>>, exp |-> -53]>>,
  <<[k |-> "num", neg |-> TRUE, man |-> <<6554, 13107, 26214, 204>>, exp |-> -57],
    [k |-> "num", neg |-> FALSE, man |-> <<9894, 24910, 16866, 243>>, exp |-> -53]>>,
  <<[k |-> "num", neg |-> TRUE, man |-> <<31967, 2665, 22179, 232>>, exp |-> -59],
    [k |-> "num", neg |-> FALSE, man |-> <<11014, 12319, 12783, 252>>, exp |-> -53]>>,
  <<[k |-> "num", neg |-> TRUE, man |-> <<31966, 2665, 22179, 232>>, exp |-> -59],
    [k |-> "num", neg |-> FALSE, man |-> <<11014, 12319, 12783, 252>>, exp |-> -53]>>,
  <<[k |-> "num", neg |-> TRUE, man |-> <<32234, 12699, 3863, 155>>, exp |-> -60],
    [k |-> "num", neg |-> FALSE, man |-> <<24865, 21614, 25919, 254>>, exp |-> -53]>>
  }

\* propagator_31 and propagator_32 of NEST for every argument tuple the
\* parameter sets below produce, as <<tau_syn, tau, C, h, P31, P32>>
PropagatorTable ==
  {
  <<[k |-> "num", neg |-> FALSE, man |-> <<0, 0, 0, 128>>, exp |-> -51],
    [k |-> "num", neg |-> FALSE, man |-> <<9332, 1011, 32657, 168>>, exp |-> -48],
    [k |-> "num", neg |-> FALSE, man |-> <<30671, 18087, 11927, 198>>, exp |-> -46],
    [k |-> "num", neg |-> FALSE, man |-> <<6554, 13107, 26214, 204>>, exp |-> -56],
    [k |-> "num", neg |-> FALSE, man |-> <<14348, 30093, 6619, 204>>, exp |-> -67],
    [k |-> "num", neg |-> FALSE, man |-> <<11412, 5094, 19543, 128>>, exp |-> -62]>>,
  <<[k |-> "num", neg |-> FALSE, man |-> <<0, 0, 0, 128>>, exp |-> -52],
    [k |-> "num", neg |-> FALSE, man |-> <<9332, 1011, 32657, 168>>, exp |-> -48],
    [k |-> "num", neg |-> FALSE, man |-> <<30671, 18087, 11927, 198>>, exp |-> -46],
    [k |-> "num", neg |-> FALSE, man |-> <<6554, 13107, 26214, 204>>, exp |-> -56],
    [k |-> "num", neg |-> FALSE, man |-> <<10251, 24361, 17898, 197>>, exp |-> -67],
    [k |-> "num", neg |-> FALSE, man |-> <<3626, 14080, 30020, 250>>, exp |-> -63]>>,
  <<[k |-> "num", neg |-> FALSE, man |-> <<0, 0, 0, 128>>, exp |-> -51],
    [k |-> "num", neg |-> FALSE, man |-> <<9332, 1011, 32657, 168>>, exp |-> -48],
    [k |-> "num", neg |-> FALSE, man |-> <<30671, 18087, 11927, 198>>, exp |-> -46],
    [k |-> "num", neg |-> FALSE, man |-> <<13107, 26214, 19660, 153>>, exp |-> -54],
    [k |-> "num", neg |-> FALSE, man |-> <<7138, 22500, 10895, 214>>, exp |-> -64],
    [k |-> "num", neg |-> FALSE, man |-> <<749, 4651, 24420, 182>>, exp |-> -61]>>,
  <<[k |-> "num", neg |-> FALSE, man |-> <<0, 0, 0, 128>>, exp |-> -52],
    [k |-> "num", neg |-> FALSE, man |-> <<9332, 1011, 32657, 168>>, exp |-> -48],
    [k |-> "num", neg |-> FALSE, man |-> <<30671, 18087, 11927, 198>>, exp |-> -46],
    [k |-> "num", neg |-> FALSE, man |-> <<13107, 26214, 19660, 153>>, exp |-> -54],
    [k |-> "num", neg |-> FALSE, man |-> <<14561, 32062, 9238, 194>>, exp |-> -64],
    [k |-> "num", neg |-> FALSE, man |-> <<24809, 23138, 32363, 169>>, exp |-> -61]>>
  }

(***************************************************************************)
(* The two node classes and their members.  P_, S_, V_ and B_ have the     *)
(* same record shape for both classes; the members the plain class lacks   *)
(* (tau_syn_, has_connections_, y1_, y2_, the propagators) stay at inert   *)
(* values there.                                                           *)
(***************************************************************************)
IsPsc(m) == m = "glif_lif_psc"

NodeClasses == {"glif_lif", "glif_lif_psc"}

\* glif_lif::Parameters_::Parameters_()
LifParameters ==
  [th_inf_ |-> D_0_0265, G_ |-> D_4_6951em9, E_l_ |-> D_m0_0774,
   C_m_ |-> D_9_9182em11, t_ref_ |-> D_1, V_reset_ |-> DZero,
   tau_syn_ |-> <<>>, V_dynamics_method_ |-> "linear_forward_euler",
   has_connections_ |-> FALSE]

\* glif_lif_psc::Parameters_::Parameters_()
PscParameters ==
  [th_inf_ |-> DMul(D_0_0265, D_1e3), G_ |-> D_4_6951,
   E_l_ |-> DMul(D_m0_0774, D_1e3), C_m_ |-> D_99_182, t_ref_ |-> D_0_5,
   V_reset_ |-> DZero, tau_syn_ |-> <<D_2>>,
   V_dynamics_method_ |-> "linear_forward_euler", has_connections_ |-> FALSE]

DefaultParameters(m) == IF IsPsc(m) THEN PscParameters ELSE LifParameters

\* State_::State_( const Parameters_& ): y1_ and y2_ are cleared, not sized
DefaultState == [V_m_ |-> DZero, I_ |-> DZero, y1_ |-> <<>>, y2_ |-> <<>>]

\* tau_syn_.size()
NReceptors(p) == Len(p.tau_syn_)

\* updateValue< T >( d, name, var ): var's new value
UpdateValue(d, name, var) == IF name \in DOMAIN d THEN d[name] ELSE var

\* The eight (plain: seven) unconditional updateValue calls that open
\* Parameters_::set.
AssignParameters(m, p, d) ==
  [th_inf_ |-> UpdateValue(d, "V_th", p.th_inf_),
   G_ |-> UpdateValue(d, "g", p.G_),
   E_l_ |-> UpdateValue(d, "E_L", p.E_l_),
   C_m_ |-> UpdateValue(d, "C_m", p.C_m_),
   t_ref_ |-> UpdateValue(d, "t_ref", p.t_ref_),
   V_reset_ |-> UpdateValue(d, "V_reset", p.V_reset_),
   tau_syn_ |-> IF IsPsc(m) THEN UpdateValue(d, "tau_syn", p.tau_syn_) ELSE p.tau_syn_,
   V_dynamics_method_ |-> UpdateValue(d, "V_dynamics_method", p.V_dynamics_method_),
   has_connections_ |-> p.has_connections_]

\* const size_t old_n_receptors = this->n_receptors_(): taken from the object
\* the assignments above have already written, tau_syn_ included.
OldNReceptors(p, assigned) == NReceptors(assigned)

\* tau_syn_[ i ] <= 0 for some i
SomeTauNotPositive(tau) == \E i \in 1..Len(tau) : DLe(tau[i], DZero)

\* The checks of glif_lif_psc::Parameters_::set after the second
\* updateValue of tau_syn: "none" or the exception thrown.
TauSynCheck(q, old_n) ==
  IF NReceptors(q) # old_n /\ q.has_connections_ THEN "BadProperty"
  ELSE IF SomeTauNotPositive(q.tau_syn_) THEN "BadProperty"
  ELSE "none"

\* Parameters_::set( d ) on the object p: the object as the call leaves it and
\* the exception it throws ("none" if it returns).
ParametersSet(m, p, d) ==
  LET q     == AssignParameters(m, p, d)
      old_n == OldNReceptors(p, q)
  IN  IF IsPsc(m) /\ "tau_syn" \in DOMAIN d
        THEN [p |-> q, err |-> TauSynCheck(q, old_n)]
        ELSE [p |-> q, err |-> "none"]

\* State_::set( d, p ): only V_m can be set
StateSet(s, d) == [s EXCEPT !.V_m_ = UpdateValue(d, "V_m", @)]

\* a set_status that writes the temporaries back although Parameters_::set
\* threw
WriteBackAlways(old, tmp, err) == tmp

\* set_status writes the temporaries back only if nothing threw:
\* Parameters_ ptmp = P_; ptmp.set( d ); ... P_ = ptmp;
WriteBack(old, tmp, err) == IF err = "none" THEN tmp ELSE old

\* set_status( d ) on a node with members p, s
SetStatusOf(m, p, s, d) ==
  LET ptmp == ParametersSet(m, p, d)
      stmp == StateSet(s, d)
  IN  [p |-> WriteBack(p, ptmp.p, ptmp.err),
       s |-> WriteBack(s, stmp, ptmp.err),
       err |-> ptmp.err]

\* a range check that lets receptor type 0 through
HandlesTestEventErrFromZero(m, p, receptor_type) ==
  IF IsPsc(m)
    THEN (IF receptor_type < 0 \/ receptor_type > NReceptors(p)
            THEN "IncompatibleReceptorType" ELSE "none")
    ELSE (IF receptor_type # 0 THEN "UnknownReceptorType" ELSE "none")

\* handles_test_event( SpikeEvent&, receptor_type ): the exception thrown
HandlesTestEventErr(m, p, receptor_type) ==
  IF IsPsc(m)
    THEN (IF receptor_type <= 0 \/ receptor_type > NReceptors(p)
            THEN "IncompatibleReceptorType" ELSE "none")
    ELSE (IF receptor_type # 0 THEN "UnknownReceptorType" ELSE "none")

(***************************************************************************)
(* The host (the NEST kernel) and its ring buffers.  A RingBuffer holds    *)
(* one accumulated value per step for the steps of the current slice and   *)
(* of the slices a delay can reach; its slots are indexed by the offset    *)
(* from the slice origin.                                                  *)
(***************************************************************************)
\* steps per slice (the minimal delay)
MinDelay == 2

\* the last step the host simulates
MaxSteps == 14

\* calls of set_status, handles_test_event and init_buffers_ in one life
MaxCalls == 2

\* steps simulated in a life that began with the default constructor
MaxLifeSteps == 3

BufLen == 2 * MinDelay

Slots == 0..(BufLen - 1)

EmptyRing == [i \in Slots |-> DZero]

\* RingBuffer::add_value( offs, v )
AddValue(rb, offs, v) == [rb EXCEPT ![offs] = DAdd(@, v)]

\* RingBuffer::get_value( offs ) returns the slot's value ...
GetValue(rb, offs) == rb[offs]

\* a get_value that leaves the slot as it is
Kept(rb, offs) == rb

\* ... and clears the slot
Drained(rb, offs) == [rb EXCEPT ![offs] = DZero]

\* The slice origin moves on by MinDelay steps.  The buffer is circular:
\* get_index maps an offset to a slot modulo the buffer's size, and a slot
\* keeps its value until get_value clears it.
Rotate(rb) == [i \in Slots |-> rb[(i + MinDelay) % BufLen]]

\* a resize that does nothing
Unresized(v, n, fill) == v

\* std::vector::resize( n ): elements kept, new ones value-initialised
Resize(v, n, fill) == [i \in 1..n |-> IF i <= Len(v) THEN v[i] ELSE fill]

\* Buffers_ after the constructor and after init_buffers_(): both ring
\* buffers of the plain class cleared; the vector of ring buffers of the psc
\* class emptied by std::vector::clear().
ClearedBuffers(m) ==
  [spikes_ |-> IF IsPsc(m) THEN <<>> ELSE <<EmptyRing>>, currents_ |-> EmptyRing]

\* Variables_ holds no initialised value before calibrate().
NoVariables ==
  [t_ref_remaining_ |-> DZero, t_ref_total_ |-> DZero, method_ |-> 0,
   P11_ |-> <<>>, P21_ |-> <<>>, P22_ |-> <<>>, P31_ |-> <<>>, P32_ |-> <<>>,
   P33_ |-> DZero, P30_ |-> DZero, PSCInitialValues_ |-> <<>>]

DExp(x) == (CHOOSE r \in ExpTable : r[1] = x)[2]

Propagators(tau_syn, tau, C, h) ==
  CHOOSE r \in PropagatorTable :
    r[1] = tau_syn /\ r[2] = tau /\ r[3] = C /\ r[4] = h

\* V_.t_ref_total_ as calibrate() sets it
RefTotal(m, p) == IF IsPsc(m) THEN p.t_ref_ ELSE DMul(p.t_ref_, D_1em3)

\* V_.method_: 0 unless the string is "linear_exact"
MethodFlag(p) == IF p.V_dynamics_method_ = "linear_exact" THEN 1 ELSE 0

\* Variables_ after calibrate() at resolution h (ms)
CalibratedVariables(m, p, h) ==
  IF IsPsc(m)
    THEN LET n    == NReceptors(p)
             Tau_ == DDiv(p.C_m_, p.G_)
             P33  == DExp(DDiv(DNeg(h), Tau_))
             P11  == [i \in 1..n |-> DExp(DDiv(DNeg(h), p.tau_syn_[i]))]
         IN  [t_ref_remaining_ |-> DZero,
              t_ref_total_ |-> RefTotal(m, p),
              method_ |-> MethodFlag(p),
              P11_ |-> P11,
              P21_ |-> [i \in 1..n |-> DMul(h, P11[i])],
              P22_ |-> P11,
              P31_ |-> [i \in 1..n |-> Propagators(p.tau_syn_[i], Tau_, p.C_m_, h)[5]],
              P32_ |-> [i \in 1..n |-> Propagators(p.tau_syn_[i], Tau_, p.C_m_, h)[6]],
              P33_ |-> P33,
              P30_ |-> DMul(DMul(DDiv(D_1, p.C_m_), DSub(D_1, P33)), Tau_),
              PSCInitialValues_ |-> [i \in 1..n |-> DDiv(DMul(D_1, D_e), p.tau_syn_[i])]]
    ELSE [NoVariables EXCEPT !.t_ref_total_ = RefTotal(m, p)]

\* State_ after calibrate(): y1_ and y2_ resized to the receptor count
CalibratedState(m, p, s) ==
  IF IsPsc(m)
    THEN [s EXCEPT !.y1_ = Resize(@, NReceptors(p), DZero),
                   !.y2_ = Resize(@, NReceptors(p), DZero)]
    ELSE s

\* Buffers_ after calibrate(): one spike ring buffer per receptor
CalibratedBuffers(m, p, b) ==
  IF IsPsc(m)
    THEN [b EXCEPT !.spikes_ = Resize(@, NReceptors(p), EmptyRing)]
    ELSE b

(***************************************************************************)
(* One iteration of the loop of update.                                    *)
(***************************************************************************)
\* dt of update: seconds in the plain class, ms in the psc class
StepSize(m, h) == IF IsPsc(m) THEN h ELSE DMul(h, D_1em3)

\* if( V_.t_ref_remaining_ > 0.0 )
InRefractory(v) == DGt(v.t_ref_remaining_, DZero)

\* V_.t_ref_remaining_ -= dt
CountDown(rem, dt) == DSub(rem, dt)

\* the voltage of a refractory step, rem being the counter after the countdown
RefractoryVoltage(rem, V_reset, v_old) ==
  IF DLe(rem, DZero) THEN V_reset ELSE v_old

\* v_old + dt*(I - G*(v_old - E_l))/C_m
ForwardEuler(p, I, v_old, dt) ==
  DAdd(v_old, DDiv(DMul(dt, DSub(I, DMul(p.G_, DSub(v_old, p.E_l_)))), p.C_m_))

\* glif_lif: v_old*exp(-dt*tau) + ((I + G*E_l)/C_m)*(1 - exp(-tau*dt))/tau
LifExact(p, I, v_old, dt) ==
  LET tau == DDiv(p.G_, p.C_m_)
  IN  DAdd(DMul(v_old, DExp(DMul(DNeg(dt), tau))),
           DDiv(DMul(DDiv(DAdd(I, DMul(p.G_, p.E_l_)), p.C_m_),
                     DSub(D_1, DExp(DMul(DNeg(tau), dt)))),
                tau))

\* glif_lif_psc: v_old*P33 + (I + G*E_l)*P30
PscExact(p, v, I, v_old) ==
  DAdd(DMul(v_old, v.P33_), DMul(DAdd(I, DMul(p.G_, p.E_l_)), v.P30_))

\* S_.V_m_ += V_.P31_[i]*S_.y1_[i] + V_.P32_[i]*S_.y2_[i], i = from .. n
RECURSIVE AddSynapses(_, _, _, _, _)
AddSynapses(vm, v, s, i, n) ==
  IF i > n THEN vm
  ELSE AddSynapses(DAdd(vm, DAdd(DMul(v.P31_[i], s.y1_[i]), DMul(v.P32_[i], s.y2_[i]))),
                   v, s, i + 1, n)

\* S_.V_m_ as the voltage dynamics of a step outside the refractory period
\* leave it.  The plain class writes S_.V_m_ in neither branch if the method
\* string is neither of the two names.
Integrated(m, p, s, v, v_old, dt) ==
  IF IsPsc(m)
    THEN AddSynapses(IF v.method_ = 0 THEN ForwardEuler(p, s.I_, v_old, dt)
                     ELSE PscExact(p, v, s.I_, v_old),
                     v, s, 1, NReceptors(p))
    ELSE IF p.V_dynamics_method_ = "linear_forward_euler" THEN ForwardEuler(p, s.I_, v_old, dt)
    ELSE IF p.V_dynamics_method_ = "linear_exact" THEN LifExact(p, s.I_, v_old, dt)
    ELSE s.V_m_

\* if( S_.V_m_ > P_.th_inf_ )
Crosses(vm, th) == DGt(vm, th)

\* an offset measured from the start of the step
SpikeOffsetFromStart(th, v_old, vm, h) ==
  DMul(DDiv(DSub(th, v_old), DSub(vm, v_old)), h)

\* (1 - (th_inf - v_old)/(V_m - v_old)) * Time::get_resolution().get_ms()
SpikeOffset(th, v_old, vm, h) ==
  DMul(DSub(D_1, DDiv(DSub(th, v_old), DSub(vm, v_old))), h)

\* a spike time that names the step itself
SpikeStepSame(org, lag) == org + lag

\* Time::step( origin.get_steps() + lag + 1 )
SpikeStep(org, lag) == org + lag + 1

\* y2 computed after y1 has decayed
NextY2FromNewY1(v, s, i) ==
  DAdd(DMul(v.P21_[i], DMul(s.y1_[i], v.P11_[i])), DMul(v.P22_[i], s.y2_[i]))

\* the alpha-shaped currents of receptor i after the step; x is the value
\* drained from the receptor's spike buffer
NextY2(v, s, i) == DAdd(DMul(v.P21_[i], s.y1_[i]), DMul(v.P22_[i], s.y2_[i]))

NextY1(v, s, i, x) == DAdd(DMul(s.y1_[i], v.P11_[i]), DMul(v.PSCInitialValues_[i], x))

(***************************************************************************)
(* The inputs: status dictionaries, resolutions, and the events the host   *)
(* delivers.                                                               *)
(***************************************************************************)
\* Time::get_resolution().get_ms(): the kernel's default and a coarser one
DefaultResolution == D_0_1

Resolutions == {DefaultResolution, D_0_3}

\* a method name that is neither of the two documented ones
UnknownMethod == "exact_linear"

\* dictionaries given to set_status in a life that began with the default
\* constructor
Dicts(m) ==
  IF IsPsc(m)
    THEN {[tau_syn |-> <<D_2, D_1>>],
          [tau_syn |-> <<>>],
          [V_th |-> D_20, V_m |-> D_30, tau_syn |-> <<D_2, DZero>>],
          [t_ref |-> D_1, tau_syn |-> <<D_m1>>],
          [V_dynamics_method |-> "linear_exact"],
          [V_dynamics_method |-> UnknownMethod],
          [V_m |-> D_30]}
    ELSE {[V_dynamics_method |-> "linear_exact"],
          [V_dynamics_method |-> UnknownMethod],
          [t_ref |-> DZero],
          [V_m |-> D_0_03]}

\* dictionaries that configure the node before a simulation
Scenarios(m) ==
  IF IsPsc(m)
    THEN {[t_ref |-> D_0_5],
          [t_ref |-> D_1],
          [t_ref |-> DZero],
          [t_ref |-> D_0_3, V_reset |-> D_30],
          [V_m |-> D_30],
          [V_dynamics_method |-> "linear_exact", tau_syn |-> <<D_2, D_1>>]}
    ELSE {[t_ref |-> D_1],
          [t_ref |-> DZero],
          [t_ref |-> D_0_3, V_reset |-> D_0_03],
          [V_m |-> D_0_03],
          [V_dynamics_method |-> "linear_exact"],
          [V_dynamics_method |-> UnknownMethod, V_m |-> D_0_03]}

\* receptor types a connection is tried with
ReceptorTypes == 0..3

\* a current strong enough to cross the threshold in one step
StrongCurrent(m) == IF IsPsc(m) THEN D_30000 ELSE D_3em8

\* The events of a simulation: a current of amplitude amp due at every step
\* from cfirst to clast, and spikes of the given weight and multiplicity on
\* receptor port rport due at every step from sfirst to slast; if second is
\* not zero, a second spike of that weight and multiplicity 1 is due on the
\* same port at each of these steps.
NoDrive(m) ==
  [amp |-> DZero, cfirst |-> 0, clast |-> -1,
   rport |-> 0, weight |-> DZero, multiplicity |-> 1, sfirst |-> 0, slast |-> -1,
   second |-> DZero]

\* one current event and one spike event of multiplicity 2
EventfulDrive(m) ==
  [NoDrive(m) EXCEPT !.amp = StrongCurrent(m), !.cfirst = 1, !.clast = 1,
                     !.rport = IF IsPsc(m) THEN 1 ELSE 0, !.weight = D_100,
                     !.multiplicity = 2, !.slast = 1]

\* a constant current
ConstantDrive(m) == [NoDrive(m) EXCEPT !.amp = StrongCurrent(m), !.clast = MaxSteps]

\* the same current, and two spike events for each of the steps 0 to 3
BurstDrive(m) ==
  [ConstantDrive(m) EXCEPT !.rport = IF IsPsc(m) THEN 1 ELSE 0, !.weight = D_100,
                           !.multiplicity = 2, !.slast = 3, !.second = D_30]

Drives(m) == {NoDrive(m), ConstantDrive(m), EventfulDrive(m), BurstDrive(m)}

CurrentEventAt(dr, org, t) ==
  IF dr.cfirst <= t /\ t <= dr.clast
    THEN <<[kind |-> "current", rport |-> 0, steps |-> t - org, weight |-> D_1,
            current |-> dr.amp, multiplicity |-> 1]>>
    ELSE <<>>

SpikeEventAt(dr, org, t, conns) ==
  IF dr.sfirst <= t /\ t <= dr.slast /\ dr.rport \in conns
    THEN <<[kind |-> "spike", rport |-> dr.rport, steps |-> t - org,
            weight |-> dr.weight, current |-> DZero,
            multiplicity |-> dr.multiplicity]>>
         \o (IF dr.second = DZero THEN <<>>
             ELSE <<[kind |-> "spike", rport |-> dr.rport, steps |-> t - org,
                     weight |-> dr.second, current |-> DZero,
                     multiplicity |-> 1]>>)
    ELSE <<>>

\* the events the host delivers before the slice that starts at step org:
\* those due in the slice, for the connections conns
RECURSIVE DueFrom(_, _, _, _)
DueFrom(dr, org, t, conns) ==
  IF t >= org + MinDelay THEN <<>>
  ELSE CurrentEventAt(dr, org, t) \o SpikeEventAt(dr, org, t, conns)
       \o DueFrom(dr, org, t + 1, conns)

Due(dr, org, conns) == DueFrom(dr, org, org, conns)

\* an int converted to double
IntToDouble(n) == RoundPack(FALSE, <<n>>, FALSE, 0)

(***************************************************************************)
(* The state.                                                              *)
(***************************************************************************)
VARIABLES
  class,       \* the node's class
  P_, S_, V_, B_,  \* the node's members
  res,         \* the kernel's resolution in ms
  calibrated,  \* calibrate() has run since the node last changed
  pc,          \* "idle", "update" (inside the loop of update) or "ub"
  upd,         \* the arguments and locals of the running update
  origin,      \* the slice origin in steps
  slicePos,    \* the lag the next update starts from
  inbox,       \* events the host has yet to deliver before the next update
  drive,       \* the events of this simulation
  conns,       \* the receptor ports connections were made to
  calls,       \* set_status / handles_test_event / init_buffers_ calls so far
  ret,         \* the last call and how it ended
  sent,        \* the spike notifications sent since calibrate()
  log,         \* one entry per step taken since calibrate()
  horizon      \* the step the host simulates up to

vars ==
  <<class, P_, S_, V_, B_, res, calibrated, pc, upd, origin, slicePos, inbox,
    drive, conns, calls, ret, sent, log, horizon>>

NoUpdate == [from |-> 0, to |-> 0, lag |-> 0, dt |-> DZero, v_old |-> DZero]

NoCall == [op |-> "constructor", err |-> "none", val |-> 0]

\* the node after its default constructor
Init ==
  /\ class \in NodeClasses
  /\ P_ = DefaultParameters(class)
  /\ S_ = DefaultState
  /\ V_ = NoVariables
  /\ B_ = ClearedBuffers(class)
  /\ res = DefaultResolution
  /\ calibrated = FALSE
  /\ pc = "idle"
  /\ upd = NoUpdate
  /\ origin = 0 - MinDelay
  /\ slicePos = MinDelay
  /\ drive = EventfulDrive(class)
  /\ inbox = <<>>
  /\ conns = {}
  /\ calls = 0
  /\ ret = NoCall
  /\ sent = <<>>
  /\ log = <<>>
  /\ horizon = MaxLifeSteps

\* the host is not inside a slice: no update is running, no event is waiting
\* for delivery and the last slice has been simulated to its end
BetweenSimulations == pc = "idle" /\ inbox = <<>> /\ slicePos = MinDelay

\* set_status( d )
SetStatus(d) ==
  /\ BetweenSimulations
  /\ calls < MaxCalls
  /\ LET r == SetStatusOf(class, P_, S_, d)
     IN  /\ P_' = r.p
         /\ S_' = r.s
         /\ ret' = [op |-> "set_status", err |-> r.err, val |-> 0]
         /\ calibrated' = (calibrated /\ r.err # "none")
  /\ calls' = calls + 1
  /\ UNCHANGED <<class, V_, B_, res, pc, upd, origin, slicePos, inbox, drive,
                 conns, sent, log, horizon>>

\* handles_test_event( SpikeEvent&, receptor_type ), called when a connection
\* to the node is made
HandlesTestEvent(receptor_type) ==
  /\ BetweenSimulations
  /\ calls < MaxCalls
  /\ LET err == HandlesTestEventErr(class, P_, receptor_type)
     IN  /\ P_' = IF err = "none" /\ IsPsc(class)
                    THEN [P_ EXCEPT !.has_connections_ = TRUE] ELSE P_
         /\ conns' = IF err = "none" THEN conns \cup {receptor_type} ELSE conns
         /\ ret' = [op |-> "handles_test_event", err |-> err,
                    val |-> IF err # "none" THEN 0
                            ELSE IF IsPsc(class) THEN receptor_type ELSE 0]
  /\ calls' = calls + 1
  /\ UNCHANGED <<class, S_, V_, B_, res, calibrated, pc, upd, origin, slicePos,
                 inbox, drive, sent, log, horizon>>

\* init_buffers_()
InitBuffers ==
  /\ BetweenSimulations
  /\ calls < MaxCalls
  /\ B_' = ClearedBuffers(class)
  /\ calibrated' = FALSE
  /\ calls' = calls + 1
  /\ ret' = [op |-> "init_buffers_", err |-> "none", val |-> 0]
  /\ UNCHANGED <<class, P_, S_, V_, res, pc, upd, origin, slicePos, inbox,
                 drive, conns, sent, log, horizon>>

\* calibrate(), which the host calls before it simulates
Calibrate ==
  /\ BetweenSimulations
  /\ ~calibrated
  /\ V_' = CalibratedVariables(class, P_, res)
  /\ S_' = CalibratedState(class, P_, S_)
  /\ B_' = CalibratedBuffers(class, P_, B_)
  /\ calibrated' = TRUE
  /\ ret' = [op |-> "calibrate", err |-> "none", val |-> 0]
  /\ sent' = <<>>
  /\ log' = <<>>
  /\ UNCHANGED <<class, P_, res, pc, upd, origin, slicePos, inbox, drive, conns,
                 calls, horizon>>

\* The host begins the next slice: the ring buffers move on and the events
\* due in the slice are queued for delivery.
AdvanceSlice ==
  /\ pc = "idle"
  /\ calibrated
  /\ slicePos = MinDelay
  /\ origin + MinDelay < horizon
  /\ origin' = origin + MinDelay
  /\ slicePos' = 0
  /\ B_' = [spikes_ |-> [i \in 1..Len(B_.spikes_) |-> Rotate(B_.spikes_[i])],
            currents_ |-> Rotate(B_.currents_)]
  /\ inbox' = Due(drive, origin + MinDelay, conns)
  /\ UNCHANGED <<class, P_, S_, V_, res, calibrated, pc, upd, drive, conns,
                 calls, ret, sent, log, horizon>>

\* handle( CurrentEvent& e )
HandleCurrent ==
  /\ pc = "idle"
  /\ calibrated
  /\ inbox # <<>>
  /\ Head(inbox).kind = "current"
  /\ LET e == Head(inbox)
     IN  B_' = [B_ EXCEPT !.currents_ =
                  AddValue(@, e.steps, DMul(e.weight, e.current))]
  /\ inbox' = Tail(inbox)
  /\ ret' = [op |-> "handle_current", err |-> "none", val |-> 0]
  /\ UNCHANGED <<class, P_, S_, V_, res, calibrated, pc, upd, origin, slicePos,
                 drive, conns, calls, sent, log, horizon>>

\* the amount handle( SpikeEvent& ) adds to a spike buffer
SpikeAmount(m, e) ==
  IF IsPsc(m) THEN DMul(e.weight, IntToDouble(e.multiplicity)) ELSE e.weight

\* the ring buffer handle( SpikeEvent& ) adds to: B_.spikes_[ rport - 1 ] of
\* the psc class, B_.spikes_ of the plain class
SpikeBuffer(m, e) == IF IsPsc(m) THEN e.rport ELSE 1

\* handle( SpikeEvent& e ).  Indexing B_.spikes_ beyond its size is
\* undefined behaviour: the process stops ("ub") or goes on, the write
\* having landed outside the members modelled.
HandleSpike ==
  /\ pc = "idle"
  /\ calibrated
  /\ inbox # <<>>
  /\ Head(inbox).kind = "spike"
  /\ LET e == Head(inbox)
         i == SpikeBuffer(class, e)
     IN  IF i \in 1..Len(B_.spikes_)
           THEN /\ B_' = [B_ EXCEPT !.spikes_[i] =
                            AddValue(@, e.steps, SpikeAmount(class, e))]
                /\ pc' = pc
           ELSE /\ B_' = B_
                /\ pc' \in {"ub", pc}
  /\ inbox' = Tail(inbox)
  /\ ret' = [op |-> "handle_spike", err |-> "none", val |-> 0]
  /\ UNCHANGED <<class, P_, S_, V_, res, calibrated, upd, origin, slicePos,
                 drive, conns, calls, sent, log, horizon>>

\* update( origin, from, to ) is entered: dt and v_old are initialised
UpdateBegin(to) ==
  /\ pc = "idle"
  /\ calibrated
  /\ inbox = <<>>
  /\ slicePos < to
  /\ origin + to <= horizon
  /\ pc' = "update"
  /\ upd' = [from |-> slicePos, to |-> to, lag |-> slicePos,
             dt |-> StepSize(class, res), v_old |-> S_.V_m_]
  /\ ret' = [op |-> "update", err |-> "none", val |-> 0]
  /\ UNCHANGED <<class, P_, S_, V_, B_, res, calibrated, origin, slicePos, inbox,
                 drive, conns, calls, sent, log, horizon>>

\* the alpha-shaped currents after the step at lag
FilteredState(s, v, b, n, lag) ==
  [s EXCEPT !.y2_ = [i \in 1..Len(@) |-> IF i <= n THEN NextY2(v, s, i) ELSE @[i]],
            !.y1_ = [i \in 1..Len(@) |->
                       IF i <= n THEN NextY1(v, s, i, GetValue(b.spikes_[i], lag))
                       ELSE @[i]]]

\* a step that drains the spike buffers of both classes
DrainedBuffersAll(m, b, n, lag) ==
  [spikes_ |-> [i \in 1..Len(b.spikes_) |-> Drained(b.spikes_[i], lag)],
   currents_ |-> Drained(b.currents_, lag)]

\* the buffers after the step at lag has drained them
DrainedBuffers(m, b, n, lag) ==
  [spikes_ |-> IF IsPsc(m)
                 THEN [i \in 1..Len(b.spikes_) |->
                         IF i <= n THEN Drained(b.spikes_[i], lag) ELSE b.spikes_[i]]
                 ELSE b.spikes_,
   currents_ |-> Drained(b.currents_, lag)]

\* the spike notifications after a step: set_spiketime and send
Notified(out, spike, org, lag, offset) ==
  IF spike
    THEN Append(out, [step |-> SpikeStep(org, lag), offset |-> offset, lag |-> lag])
    ELSE out

\* one iteration of for ( long lag = from; lag < to; ++lag ); the primed
\* S_.V_m_ and V_.t_ref_remaining_ are the members as the step has written
\* them when the later statements read them
UpdateLag ==
  /\ pc = "update"
  /\ upd.lag < upd.to
  /\ LET refr == InRefractory(V_)
         n    == IF IsPsc(class) THEN NReceptors(P_) ELSE 0
         rem  == CountDown(V_.t_ref_remaining_, upd.dt)
     IN  /\ S_' = [FilteredState(S_, V_, B_, n, upd.lag) EXCEPT
                     !.V_m_ = IF refr
                                THEN RefractoryVoltage(rem, P_.V_reset_, upd.v_old)
                                ELSE Integrated(class, P_, S_, V_, upd.v_old, upd.dt),
                     !.I_ = GetValue(B_.currents_, upd.lag)]
         /\ V_' = [V_ EXCEPT !.t_ref_remaining_ =
                     IF refr THEN rem
                     ELSE IF Crosses(S_'.V_m_, P_.th_inf_) THEN V_.t_ref_total_
                     ELSE @]
         /\ B_' = DrainedBuffers(class, B_, n, upd.lag)
         /\ sent' = Notified(sent, ~refr /\ Crosses(S_'.V_m_, P_.th_inf_), origin,
                             upd.lag,
                             SpikeOffset(P_.th_inf_, upd.v_old, S_'.V_m_, res))
         /\ log' = Append(log, [step |-> origin + upd.lag, lag |-> upd.lag,
                                refr |-> refr, v_old |-> upd.v_old,
                                vm |-> S_'.V_m_, I |-> S_.I_,
                                rem |-> V_.t_ref_remaining_,
                                y1 |-> S_.y1_, y2 |-> S_.y2_])
         /\ upd' = [upd EXCEPT !.lag = @ + 1, !.v_old = S_'.V_m_]
  /\ UNCHANGED <<class, P_, res, calibrated, pc, origin, slicePos, inbox, drive,
                 conns, calls, ret, horizon>>

\* the loop of update ends and update returns
UpdateEnd ==
  /\ pc = "update"
  /\ upd.lag = upd.to
  /\ pc' = "idle"
  /\ slicePos' = upd.to
  /\ upd' = NoUpdate
  /\ UNCHANGED <<class, P_, S_, V_, B_, res, calibrated, origin, inbox, drive,
                 conns, calls, ret, sent, log, horizon>>

Next ==
  \/ \E d \in Dicts(class) : SetStatus(d)
  \/ \E r \in ReceptorTypes : HandlesTestEvent(r)
  \/ InitBuffers
  \/ Calibrate
  \/ AdvanceSlice
  \/ HandleCurrent
  \/ HandleSpike
  \/ \E to \in 1..MinDelay : UpdateBegin(to)
  \/ UpdateLag
  \/ UpdateEnd

Spec == Init /\ [][Next]_vars

(***************************************************************************)
(* One simulation of a configured node: the node is constructed, set_status*)
(* is called with one of the scenario dictionaries, a connection is made   *)
(* for the spikes of the drive, and calibrate() is called; then the host   *)
(* delivers events and calls update, slice after slice.                    *)
(***************************************************************************)
Configured(m, d, dr) ==
  LET r     == SetStatusOf(m, DefaultParameters(m), DefaultState, d)
      bound == dr.slast >= dr.sfirst
                 /\ HandlesTestEventErr(m, r.p, dr.rport) = "none"
      p     == IF bound /\ IsPsc(m) THEN [r.p EXCEPT !.has_connections_ = TRUE] ELSE r.p
  IN  [p |-> p, s |-> r.s, conns |-> IF bound THEN {dr.rport} ELSE {}]

InitRun ==
  \E m \in NodeClasses, h \in Resolutions :
    \E d \in Scenarios(m), dr \in Drives(m) :
      LET c == Configured(m, d, dr)
      IN  /\ class = m
          /\ P_ = c.p
          /\ S_ = CalibratedState(m, c.p, c.s)
          /\ V_ = CalibratedVariables(m, c.p, h)
          /\ B_ = CalibratedBuffers(m, c.p, ClearedBuffers(m))
          /\ res = h
          /\ calibrated = TRUE
          /\ pc = "idle"
          /\ upd = NoUpdate
          /\ origin = 0 - MinDelay
          /\ slicePos = MinDelay
          /\ drive = dr
          /\ inbox = <<>>
          /\ conns = c.conns
          /\ calls = 0
          /\ ret = NoCall
          /\ sent = <<>>
          /\ log = <<>>
          /\ horizon = MaxSteps

NextRun ==
  \/ AdvanceSlice
  \/ HandleCurrent
  \/ HandleSpike
  \/ \E to \in 1..MinDelay : UpdateBegin(to)
  \/ UpdateLag
  \/ UpdateEnd

SpecRun == InitRun /\ [][NextRun]_vars

(***************************************************************************)
(* Properties of the life of a node: set_status and connections.           *)
(***************************************************************************)
\* C1: in the psc class, while has_connections_ is true no step (a
\* set_status with a shorter tau_syn in particular) makes the receptor count
\* smaller: the length of tau_syn_ never decreases.
C1_ReceptorCountNeverShrinks ==
  [][(IsPsc(class) /\ P_.has_connections_)
       => NReceptors(P_') >= NReceptors(P_)]_vars

\* the two documented names of the voltage dynamics
Methods == {"linear_forward_euler", "linear_exact"}

\* C5: a method name that is neither of the two documented ones is rejected
\* by set_status and the method before the call stays, so that no update
\* runs with an unrecognized method.
C5_NoUpdateWithUnknownMethod ==
  pc = "update" => P_.V_dynamics_method_ \in Methods

\* every synaptic time constant of the live parameters is positive
AllTauPositive == \A i \in 1..Len(P_.tau_syn_) : DGt(P_.tau_syn_[i], DZero)

\* set_status( d ) has thrown and left the parameters and the state alone
Rejected == ret'.err = "BadProperty" /\ P_' = P_ /\ S_' = S_

\* C6: a set_status whose tau_syn holds a value <= 0 is rejected and leaves
\* every parameter and the state as they were before the call, whatever else
\* the dictionary names; every synaptic time constant of a reachable state is
\* positive.
C6_BadTauSynRejectedAtomically ==
  /\ []AllTauPositive
  /\ [][\A d \in Dicts(class) :
          (SetStatus(d) /\ "tau_syn" \in DOMAIN d /\ SomeTauNotPositive(d.tau_syn))
            => Rejected]_vars

\* a set_status has been rejected
C6_Witness ==
  /\ IsPsc(class)
  /\ ret.op = "set_status"
  /\ ret.err = "BadProperty"

\* C7: in the psc class a connection with a receptor type outside
\* 1..n_receptors is rejected and leaves has_connections_ and the buffers as
\* they were; one inside succeeds, returns the receptor type and sets
\* has_connections_, which no later step clears.
C7_ReceptorBinding ==
  /\ [][\A r \in ReceptorTypes :
          (IsPsc(class) /\ HandlesTestEvent(r))
            => IF r \in 1..NReceptors(P_)
                 THEN ret'.err = "none" /\ ret'.val = r /\ P_'.has_connections_
                 ELSE ret'.err = "IncompatibleReceptorType" /\ P_' = P_ /\ B_' = B_]_vars
  /\ [][P_.has_connections_ => P_'.has_connections_]_vars

\* a connection has been refused after one was made
C7_Witness ==
  /\ IsPsc(class)
  /\ P_.has_connections_
  /\ conns # {}
  /\ ret.op = "handles_test_event"
  /\ ret.err = "IncompatibleReceptorType"

(***************************************************************************)
(* Properties of a simulation, read off the log of the steps taken and the *)
(* spike notifications sent.                                               *)
(***************************************************************************)
\* step i of the log integrated the voltage and found it above the threshold
CrossingAt(i) == ~log[i].refr /\ Crosses(log[i].vm, P_.th_inf_)

Crossings == {i \in 1..Len(log) : CrossingAt(i)}

\* C2: after a crossing the voltage of every refractory step is the voltage
\* of the step before it (the peak) or, on the step that ends the refractory
\* period, V_reset_; with t_ref = 1.0 ms and a resolution of 0.1 ms the
\* voltage is at the peak for 10 consecutive steps, the crossing step being
\* the first, and at V_reset_ on the step after them.
C2_RefractoryHold ==
  /\ \A j \in 1..Len(log) :
       log[j].refr =>
         \/ log[j].vm = log[j].v_old
         \/ log[j].vm = P_.V_reset_ /\ (j < Len(log) => ~log[j + 1].refr)
  /\ (P_.t_ref_ = D_1 /\ res = D_0_1) =>
       \A i \in Crossings :
         /\ \A k \in 1..9 : i + k <= Len(log) => log[i + k].vm = log[i].vm
         /\ i + 10 <= Len(log) => log[i + 10].vm = P_.V_reset_

\* C3: the offset of every spike notification lies in [0, resolution].
C3_OffsetWithinStep ==
  \A i \in 1..Len(sent) :
    DGe(sent[i].offset, DZero) /\ DLe(sent[i].offset, res)

\* the crossings that came from below the threshold
RisingCrossings == {i \in Crossings : DLt(log[i].v_old, P_.th_inf_)}

\* thresholds a crossing from v_old to vm could have had, from one that is
\* met at the start of the step (v_old) to one met at its end (vm)
Ladder(v_old, vm, th) ==
  {v_old, th, DAdd(v_old, DDiv(DSub(vm, v_old), D_2)), vm}

\* C4 (as stated): the later in the step the threshold is met (the closer the
\* threshold to vm), the larger the offset.
C4_OffsetGrowsWithLateCrossing ==
  \A i \in RisingCrossings :
    \A a, b \in Ladder(log[i].v_old, log[i].vm, P_.th_inf_) :
      DLt(a, b) => DLe(SpikeOffset(a, log[i].v_old, log[i].vm, res),
                       SpikeOffset(b, log[i].v_old, log[i].vm, res))

\* C4 (amended): the later in the step the threshold is met, the smaller the
\* offset: it is the whole resolution for a threshold met at the start of the
\* step and 0 for one met at its end, the time from the crossing to the end
\* of the step.  Stated of the newest step of the log, which every step of
\* the log has been.
C4_OffsetShrinksWithLateCrossing ==
  Len(log) \in RisingCrossings =>
    LET e == log[Len(log)]
    IN  /\ SpikeOffset(e.v_old, e.v_old, e.vm, res) = res
        /\ SpikeOffset(e.vm, e.v_old, e.vm, res) = DZero
        /\ \A a, b \in Ladder(e.v_old, e.vm, P_.th_inf_) :
             DLt(a, b) => DGe(SpikeOffset(a, e.v_old, e.vm, res),
                              SpikeOffset(b, e.v_old, e.vm, res))

\* a crossing from below the threshold has been notified
C4_Witness ==
  /\ RisingCrossings # {}
  /\ sent # <<>>
  /\ DGt(sent[1].offset, DZero)
  /\ DLt(sent[1].offset, res)

\* the notification update sends for a step of the log
NotificationOf(e) ==
  [step |-> e.step + 1,
   offset |-> SpikeOffset(P_.th_inf_, e.v_old, e.vm, res),
   lag |-> e.lag]

\* the steps of the log that crossed the threshold, in order
CrossingSteps ==
  SelectSeq(log, LAMBDA e : ~e.refr /\ Crosses(e.vm, P_.th_inf_))

\* C8: update takes the lags from, from + 1, ..., to - 1 in this order, each
\* step once; the notifications sent are, in order, one for each step that
\* integrated the voltage and found it above the threshold, for the step
\* origin + lag + 1 and with that step's offset; refractory steps send none,
\* and every refractory period follows a step that sent one.
C8_OneNotificationPerCrossing ==
  /\ \A i \in 1..Len(log) : log[i].step = i - 1 /\ log[i].lag = (i - 1) % MinDelay
  /\ pc = "update" =>
       /\ upd.from <= upd.lag /\ upd.lag <= upd.to
       /\ Len(log) = origin + upd.lag
  /\ pc = "idle" => Len(log) = origin + slicePos
  /\ sent = [k \in 1..Len(CrossingSteps) |-> NotificationOf(CrossingSteps[k])]
  /\ \A i \in 1..Len(log) :
       (log[i].refr /\ (i = 1 \/ ~log[i - 1].refr)) => (i > 1 /\ CrossingAt(i - 1))

\* two refractory periods have begun, each after a notification
C8_Witness ==
  /\ Len(sent) >= 2
  /\ \E i \in 1..Len(log) : log[i].refr
  /\ pc = "update"
  /\ upd.from < upd.lag

\* C9: the refractory time left is never negative.
C9_RemainingNeverNegative == DGe(V_.t_ref_remaining_, DZero)

\* C10: the step after a crossing is a refractory step: it does not
\* integrate the voltage.
C10_RefractoryAfterCrossing ==
  \A i \in Crossings : i < Len(log) => log[i + 1].refr

(***************************************************************************)
(* The input buffers during a simulation.                                  *)
(***************************************************************************)

\* the sum of weight x current of the current events due at step t: what
\* handle( CurrentEvent& ) has added to the slot of t when update reads it
DeliveredCurrent(dr, t) ==
  IF dr.cfirst <= t /\ t <= dr.clast THEN DAdd(DZero, DMul(D_1, dr.amp)) ELSE DZero

\* the state the voltage update of a logged step read
StateBefore(e) == [V_m_ |-> e.v_old, I_ |-> e.I, y1_ |-> e.y1, y2_ |-> e.y2]

\* the voltage a logged step has to end with, given what it read
VoltageOf(e) ==
  IF e.refr
    THEN RefractoryVoltage(CountDown(e.rem, StepSize(class, res)), P_.V_reset_,
                           e.v_old)
    ELSE Integrated(class, P_, StateBefore(e), V_, e.v_old, StepSize(class, res))

\* C11: on every step, refractory or not, the current buffer's value at the
\* step's lag is moved into S_.I_ after the voltage logic of the step: the
\* voltage of a step is computed from the current delivered for the step
\* before it (none for the first step), S_.I_ ends the step as the current
\* delivered for that very step, not summed with an earlier one, and the
\* slots of the lags already stepped through are empty.
C11_CurrentDrainedAfterVoltage ==
  /\ \A i \in 1..Len(log) :
       log[i].I = IF i = 1 THEN DZero ELSE DeliveredCurrent(drive, log[i - 1].step)
  /\ log # <<>> =>
       /\ S_.I_ = DeliveredCurrent(drive, log[Len(log)].step)
       /\ log[Len(log)].vm = VoltageOf(log[Len(log)])
  /\ pc = "update" => \A l \in upd.from..(upd.lag - 1) : B_.currents_[l] = DZero

\* a current arrived for a refractory step, the step after it read it, and
\* the step after that read the next one alone
C11_Witness ==
  \E i \in 2..Len(log) :
    /\ log[i - 1].refr
    /\ DeliveredCurrent(drive, log[i - 1].step) # DZero
    /\ log[i].I = DeliveredCurrent(drive, log[i - 1].step)
    /\ i > 3
    /\ log[i - 2].refr
    /\ log[i - 1].I = log[i].I

\* the sum of weight x multiplicity of the spike events due at step t on
\* receptor port r: what handle( SpikeEvent& ) has added to the slot of t
\* of B_.spikes_[ r - 1 ] when update reads it
DeliveredSpikes(dr, t, r, cs) ==
  IF dr.sfirst <= t /\ t <= dr.slast /\ dr.rport = r /\ r \in cs
    THEN IF dr.second = DZero
           THEN DAdd(DZero, DMul(dr.weight, IntToDouble(dr.multiplicity)))
           ELSE DAdd(DAdd(DZero, DMul(dr.weight, IntToDouble(dr.multiplicity))),
                     DMul(dr.second, IntToDouble(1)))
    ELSE DZero

\* C12: in the psc class every step, refractory or not, takes each receptor's
\* y2 to P21 * y1 + P22 * y2 with the y1 of before the step, decays y1 by P11
\* and adds PSCInitialValues times the sum of weight x multiplicity of the
\* spike events due at the step's lag; the slots read are left empty, so an
\* amount enters once; and the voltage of the step is computed from the y1
\* and y2 of before the step.
C12_FilterOrder ==
  (IsPsc(class) /\ log # <<>>) =>
    LET e == log[Len(log)]
    IN  /\ Len(S_.y1_) = NReceptors(P_) /\ Len(S_.y2_) = NReceptors(P_)
        /\ \A r \in 1..NReceptors(P_) :
             /\ S_.y2_[r] = DAdd(DMul(V_.P21_[r], e.y1[r]), DMul(V_.P22_[r], e.y2[r]))
             /\ S_.y1_[r] = DAdd(DMul(e.y1[r], V_.P11_[r]),
                                 DMul(V_.PSCInitialValues_[r],
                                      DeliveredSpikes(drive, e.step, r, conns)))
             /\ pc = "update" =>
                  \A l \in upd.from..(upd.lag - 1) : B_.spikes_[r][l] = DZero
        /\ e.vm = VoltageOf(e)

\* two spike events were due at a refractory step that began with y1 and y2
\* away from zero, and a later step that integrates has read what they left
C12_Witness ==
  /\ IsPsc(class)
  /\ drive.second # DZero
  /\ \E i \in 2..Len(log) :
       /\ log[i - 1].refr
       /\ DeliveredSpikes(drive, log[i - 1].step, 1, conns) # DZero
       /\ log[i - 1].y1[1] # DZero
       /\ log[i - 1].y2[1] # DZero
  /\ ~log[Len(log)].refr
  /\ log[Len(log) - 1].refr
  /\ log[Len(log)].y2[1] # DZero

(***************************************************************************)
(* The per-receptor vectors of the psc class.                              *)
(***************************************************************************)

\* tau_syn_, y1_, y2_ and the vector of spike buffers have one element per
\* receptor
LengthsAgree ==
  /\ Len(P_.tau_syn_) = NReceptors(P_)
  /\ Len(S_.y1_) = NReceptors(P_)
  /\ Len(S_.y2_) = NReceptors(P_)
  /\ Len(B_.spikes_) = NReceptors(P_)

\* C13 as the specification states it: in every reachable state of a psc node
\* the lengths of tau_syn_, y1_, y2_ and the number of spike buffers equal
\* the receptor count.
C13_LengthsAlwaysAgree == IsPsc(class) => LengthsAgree

\* C13 as the code has it: the lengths of tau_syn_, y1_, y2_ and the number
\* of spike buffers of a psc node equal the receptor count from calibrate()
\* on, stepping included, until set_status next accepts a dictionary or
\* init_buffers_() runs; calibrate() is what resizes y1_, y2_ and spikes_.
C13_LengthsAgreeOnceCalibrated == (IsPsc(class) /\ calibrated) => LengthsAgree

\* a psc node steps with two receptors: set_status raised the count from the
\* constructor's one and calibrate() resized y1_, y2_ and spikes_
C13_Witness ==
  /\ IsPsc(class)
  /\ calibrated
  /\ NReceptors(P_) = 2
  /\ pc = "update"
  /\ log # <<>>
  /\ LengthsAgree

(***************************************************************************)
(* The spike buffer of the plain class.                                    *)
(***************************************************************************)

\* V_.t_ref_remaining_ as a logged step leaves it
RemainingAfter(e) ==
  IF e.refr THEN CountDown(e.rem, StepSize(class, res))
  ELSE IF Crosses(e.vm, P_.th_inf_) THEN V_.t_ref_total_
  ELSE e.rem

\* the steps update has sent a spike notification for
SpikingSteps == {i \in 1..Len(log) : ~log[i].refr /\ Crosses(log[i].vm, P_.th_inf_)}

\* Voltage, refractory countdown and notifications of a plain node follow
\* from its parameters, its state at calibrate() and the current events
\* alone: each step computes them from what the step before left and from
\* the current delivered for the step before.
DeterminedByCurrents ==
  /\ \A i \in 1..Len(log) :
       /\ log[i].I = IF i = 1 THEN DZero
                     ELSE DeliveredCurrent(drive, log[i - 1].step)
       /\ i > 1 => log[i].v_old = log[i - 1].vm
       /\ log[i].y1 = <<>> /\ log[i].y2 = <<>>
  /\ Len(sent) = Cardinality(SpikingSteps)
  /\ log # <<>> =>
       LET e == log[Len(log)]
       IN  /\ e.refr = InRefractory([V_ EXCEPT !.t_ref_remaining_ = e.rem])
           /\ e.vm = VoltageOf(e)
           /\ S_.V_m_ = e.vm
           /\ S_.I_ = DeliveredCurrent(drive, e.step)
           /\ V_.t_ref_remaining_ = RemainingAfter(e)
           /\ Len(log) > 1 => e.rem = RemainingAfter(log[Len(log) - 1])
           /\ Len(log) \in SpikingSteps =>
                sent[Len(sent)] =
                  [step |-> SpikeStep(e.step - e.lag, e.lag), lag |-> e.lag,
                   offset |-> SpikeOffset(P_.th_inf_, e.v_old, e.vm, res)]

\* handle( SpikeEvent& ) of the plain class adds the event's weight to the
\* slot of the event's delivery step and touches nothing else of the node;
\* a step of update leaves B_.spikes_ as it is.
SpikesOnlyAccumulate ==
  /\ (inbox # <<>> /\ Head(inbox).kind = "spike" /\ inbox' = Tail(inbox)) =>
       /\ B_' = [B_ EXCEPT !.spikes_[1][Head(inbox).steps] =
                   DAdd(@, Head(inbox).weight)]
       /\ UNCHANGED <<S_, V_, sent, log, pc, upd>>
  /\ log' # log => B_'.spikes_ = B_.spikes_
  /\ B_'.spikes_ # B_.spikes_ => UNCHANGED <<S_, V_, sent, log>>

\* C14: in the plain class handle( SpikeEvent& ) only accumulates into
\* B_.spikes_ and update neither reads nor drains that buffer: the voltage,
\* the refractory countdown and the notifications of every step are those
\* the current events alone determine, so two runs from the same state with
\* the same current events and different spike events agree on all three.
C14_SpikesDoNotInterfere ==
  /\ [](~IsPsc(class) => DeterminedByCurrents)
  /\ [][~IsPsc(class) => SpikesOnlyAccumulate]_vars

\* a plain node has received spike events, which are still in its buffer,
\* and has stepped through a crossing and the refractory period after it
C14_Witness ==
  /\ ~IsPsc(class)
  /\ drive.second # DZero
  /\ conns # {}
  /\ \E l \in Slots : B_.spikes_[1][l] # DZero
  /\ Len(log) > 6
  /\ sent # <<>>
  /\ \E i \in 1..Len(log) : log[i].refr
  /\ ~log[Len(log)].refr

=============================================================================
